---- MODULE Spec2Model ----
(***************************************************************************)
(* Model of src/renderer.py: class Renderer, which turns one               *)
(* LocationInfoDTO into a grouped fixed-width text report.                 *)
(*                                                                         *)
(* Text is modelled as a sequence of one-character strings, so that        *)
(* slicing, splitting, padding and joining are computed character by       *)
(* character as the Python code computes them.  The parser accepts ASCII   *)
(* only: every Cyrillic letter of a literal of the source is written as    *)
(* one Latin character (the lengths, which is all the layout arithmetic    *)
(* reads, are those of the source).                                        *)
(*                                                                         *)
(* Optional values (int | None) are records: [some |-> FALSE] is None,     *)
(* [some |-> TRUE, v |-> n] is the integer n.                              *)
(***************************************************************************)
EXTENDS Integers, Sequences, FiniteSets, TLC

VARIABLES
    location_info,  \* Renderer.location_info, set by the constructor
    frame,          \* the method being run (or last run) and its locals
    ret             \* what the last finished call returned or raised

vars == <<location_info, frame, ret>>

(***************************************************************************)
(* Python built-ins on text                                                *)
(***************************************************************************)

Min(S) == CHOOSE m \in S : \A k \in S : m <= k

Max(S) == CHOOSE m \in S : \A k \in S : k <= m

\* "".join([ch for _ in range(n)]): n copies of ch; range(n) is empty for n <= 0
Repeat(ch, n) == [k \in 1..(IF n > 0 THEN n ELSE 0) |-> ch]

\* s[a:b] for 0 <= a and 0 <= b (Python clamps both ends to len(s))
Slice(s, a, b) ==
    LET hi == IF b > Len(s) THEN Len(s) ELSE b
    IN  IF a >= hi THEN <<>> ELSE SubSeq(s, a + 1, hi)

RECURSIVE SumSeq(_)
\* sum(list)
SumSeq(s) == IF s = <<>> THEN 0 ELSE s[1] + SumSeq(Tail(s))

RECURSIVE Split(_, _)
\* s.split(sep) for a one-character sep: the fragments between separators,
\* empty fragments kept (a trailing separator leaves a trailing "")
Split(s, sep) ==
    LET hits == {k \in 1..Len(s) : s[k] = sep}
    IN  IF hits = {} THEN <<s>>
        ELSE LET p == Min(hits)
             IN  <<SubSeq(s, 1, p - 1)>> \o Split(SubSeq(s, p + 1, Len(s)), sep)

RECURSIVE Join(_, _)
\* sep.join(parts)
Join(sep, parts) ==
    IF parts = <<>> THEN <<>>
    ELSE IF Len(parts) = 1 THEN parts[1]
    ELSE parts[1] \o sep \o Join(sep, Tail(parts))

Digits == <<"0", "1", "2", "3", "4", "5", "6", "7", "8", "9">>

RECURSIVE NatToText(_)
\* str(n) for n >= 0
NatToText(n) ==
    IF n < 10 THEN <<Digits[n + 1]>>
    ELSE NatToText(n \div 10) \o <<Digits[(n % 10) + 1]>>

\* str(n) for an int
IntToText(n) == IF n < 0 THEN <<"-">> \o NatToText(-n) ELSE NatToText(n)

\* n printed with at least w digits (strftime's %m, %d, %H, %M, %S; %Y with w = 4)
Padded(n, w) == Repeat("0", w - Len(NatToText(n))) \o NatToText(n)

None == [some |-> FALSE]

Some(n) == [some |-> TRUE, v |-> n]

\* bool(x) for x: int | None
Truthy(x) == x.some /\ x.v # 0

Return(value) == [kind |-> "return", value |-> value]

Raise(exc) == [kind |-> "raise", exc |-> exc]

NoCall == [method |-> "none"]

NoResult == [kind |-> "none"]

(***************************************************************************)
(* The data object                                                         *)
(***************************************************************************)

\* "Chad"
NameChad == <<"C", "h", "a", "d">>

DefaultDTO ==
    [ location |->
        [ name |-> NameChad,
          subregion |-> <<"A", "f", "r">>,
          area |-> <<"1", "2", ".", "5">>,
          languages |-> <<>>,
          population |-> 1234567,
          capital |-> <<"N">> ],
      capital_location |->
        [ lat |-> <<"1", "2", ".", "1">>,
          lon |-> <<"1", "5", ".", "0">>,
          timezone |-> None,
          current_time_UTC |-> None ],
      weather |->
        [ description |-> <<"f", "o", "g">>,
          temp |-> <<"3", "0">>,
          visibility |-> <<"9", "0", "0">>,
          wind_speed |-> <<"2">> ],
      currency_rates |-> <<>>,
      news |-> [news |-> <<>>] ]

(***************************************************************************)
(* split_country_name                                                      *)
(***************************************************************************)

MaxNameLen == 4

NameChars == {"a", " ", "\t"}

Names == UNION {[1..n -> NameChars] : n \in 0..MaxNameLen}

MidPosFromStart(country_name) == 0

\* mid_pos = len(country_name) // 2
MidPos(country_name) == Len(country_name) \div 2

\* the for loop: the first i in range(mid_pos, len) with country_name[i] == " ",
\* else -1 (indices are Python's, from 0)
SpacePos(country_name) ==
    LET found == {i \in MidPos(country_name)..(Len(country_name) - 1) :
                      country_name[i + 1] = " "}
    IN  IF found = {} THEN -1 ELSE Min(found)

split_country_name(country_name) ==
    LET space_pos == SpacePos(country_name)
    IN  IF space_pos = -1 THEN country_name
        ELSE Slice(country_name, 0, space_pos) \o <<"\n">>
             \o Slice(country_name, space_pos + 1, Len(country_name))

SplitCountryNameCall ==
    /\ frame = NoCall
    /\ \E country_name \in Names :
        /\ frame' = [method |-> "split_country_name", country_name |-> country_name]
        /\ ret' = Return(split_country_name(country_name))
        /\ UNCHANGED location_info

InitSplit ==
    /\ location_info = DefaultDTO
    /\ frame = NoCall
    /\ ret = NoResult

SpecSplit == InitSplit /\ [][SplitCountryNameCall]_vars

SplitDone == frame.method = "split_country_name" /\ ret.kind = "return"

\* what str.isspace() accepts, among the characters of NameChars
Whitespace == {" ", "\t"}

\* the positions (from 1) at or after the midpoint that hold a character of cs
FromMid(name, cs) ==
    {p \in ((Len(name) \div 2) + 1)..Len(name) : name[p] \in cs}

\* out is name with the first character of cs at or after the midpoint
\* replaced by a line break, or name itself when there is none
SplitsAtFirst(name, out, cs) ==
    IF FromMid(name, cs) = {} THEN out = name
    ELSE LET p == Min(FromMid(name, cs))
         IN  /\ Len(out) = Len(name)
             /\ out[p] = "\n"
             /\ \A j \in (1..Len(name)) \ {p} : out[j] = name[j]

\* C6 (as amended): split_country_name replaces the first SPACE character
\* (U+0020) found at an index in floor(len/2) .. len-1 by a line break and
\* leaves every other character unchanged; with no space at or after the
\* midpoint (other whitespace does not count) the result is the input.
C6_SplitsAtFirstSpace ==
    SplitDone => SplitsAtFirst(frame.country_name, ret.value, {" "})

\* C6 (as claimed): the character replaced is the first whitespace character
\* at or after the midpoint.
C6_SplitsAtFirstWhitespace ==
    SplitDone => SplitsAtFirst(frame.country_name, ret.value, Whitespace)

\* a name that was split at a space that is neither the first space of the
\* name nor the first whitespace after the midpoint
C6_Witness ==
    /\ SplitDone
    /\ ret.value # frame.country_name
    /\ \E p \in FromMid(frame.country_name, {" "}) :
          /\ ret.value[p] = "\n"
          /\ \E q \in 1..(p - 1) : frame.country_name[q] = " "
          /\ \E q \in FromMid(frame.country_name, {"\t"}) : q < p

(***************************************************************************)
(* _format_table_groups                                                    *)
(*                                                                         *)
(* The loop is run one iteration per step, with the method's locals in     *)
(* frame: i is the index of the next iteration (the number of groups       *)
(* done), col_index the column cursor.                                     *)
(***************************************************************************)

corner_sep == "+"

column_sep == "|"

row_char == "-"

\* the fragments taken with [1:-1]: the empty one after the last corner dropped
ParseColumnLengthsInner(table_string) ==
    LET cols == Split(Split(table_string, "\n")[1], corner_sep)
    IN  [k \in 1..(Len(cols) - 2) |-> Len(cols[k + 1])]

\* cols = table_string.split("\n")[0].split(corner_sep)[1:]
\* column_lengths = [len(c) for c in cols]
ParseColumnLengths(table_string) ==
    LET cols == Tail(Split(Split(table_string, "\n")[1], corner_sep))
    IN  [k \in 1..Len(cols) |-> Len(cols[k])]

\* the last entry of column_lengths taken to be out of range
ColumnsInRangeStrict(column_lengths, col_index, span) ==
    span <= 0 \/ col_index + span < Len(column_lengths)

\* whether column_lengths[ci] exists for every ci in
\* range(col_index, span + col_index); if not, the subscript raises IndexError
ColumnsInRange(column_lengths, col_index, span) ==
    span <= 0 \/ col_index + span <= Len(column_lengths)

\* group_col_length = sum(column_lengths[ci] for ci in range(col_index,
\* span + col_index)) + (span - 1)
GroupColLength(column_lengths, col_index, span) ==
    SumSeq([k \in 1..span |-> column_lengths[col_index + k]]) + (span - 1)

\* empty_space_in_gr_name_left = (group_col_length - len(name)) // 2
EmptySpaceLeft(group_col_length, name) == (group_col_length - Len(name)) \div 2

\* the right padding taken equal to the left padding
EmptySpaceRightSymmetric(group_col_length, name, left) == left

\* empty_space_in_gr_name_right = group_col_length - len(name) - left
EmptySpaceRight(group_col_length, name, left) ==
    group_col_length - Len(name) - left

\* col_index += column_groups_length[i], written twice in the loop body
NextColIndex(col_index, span) == col_index + span + span

\* the locals after lines 134-139
GroupsBegin(table_string, column_groups_names, column_groups_length) ==
    [ method |-> "_format_table_groups",
      table_string |-> table_string,
      column_groups_names |-> column_groups_names,
      column_groups_length |-> column_groups_length,
      column_lengths |-> ParseColumnLengths(table_string),
      upper_boudary |-> <<>>,
      group_col_names |-> <<>>,
      col_index |-> 0,
      i |-> 0,
      group_col_length |-> 0,
      empty_space_in_gr_name_left |-> 0,
      empty_space_in_gr_name_right |-> 0 ]

\* whether iteration f.i of the loop reads only columns that exist
GroupsCanIter(f) ==
    ColumnsInRange(f.column_lengths, f.col_index, f.column_groups_length[f.i + 1])

\* one iteration of the loop body, lines 141-166
GroupsIter(f) ==
    LET span  == f.column_groups_length[f.i + 1]
        name  == f.column_groups_names[f.i + 1]
        w     == GroupColLength(f.column_lengths, f.col_index, span)
        left  == EmptySpaceLeft(w, name)
        right == EmptySpaceRight(w, name, left)
    IN  [ f EXCEPT
            !.upper_boudary = @ \o <<corner_sep>> \o Repeat(row_char, w),
            !.group_col_names =
                @ \o <<column_sep>> \o Repeat(" ", left) \o name \o Repeat(" ", right),
            !.col_index = NextColIndex(@, span),
            !.i = @ + 1,
            !.group_col_length = w,
            !.empty_space_in_gr_name_left = left,
            !.empty_space_in_gr_name_right = right ]

\* lines 167-170: res = f"{upper_boudary}+\n{group_col_names}|"
GroupsFinish(f) ==
    f.upper_boudary \o <<corner_sep>> \o <<"\n">> \o f.group_col_names \o <<column_sep>>

RECURSIVE GroupsRun(_)
\* the loop run to its end: what the call returns or raises
GroupsRun(f) ==
    IF f.i = Len(f.column_groups_length) THEN Return(GroupsFinish(f))
    ELSE IF ~GroupsCanIter(f) THEN Raise("IndexError")
    ELSE GroupsRun(GroupsIter(f))

\* the whole call, as render makes it
format_table_groups(table_string, column_groups_names, column_groups_length) ==
    GroupsRun(GroupsBegin(table_string, column_groups_names, column_groups_length))

MaxLineLen == 6

MaxGroups == 2

MaxSpan == 2

\* first lines of a table string: every text of '+' and '-', the well-formed
\* borders and the malformed ones
BorderTexts == UNION {[1..n -> {corner_sep, row_char}] : n \in 0..MaxLineLen}

\* "+" w_1 dashes "+" ... "+" w_n dashes "+"
RECURSIVE BorderLine(_)
BorderLine(ws) ==
    IF ws = <<>> THEN <<corner_sep>>
    ELSE <<corner_sep>> \o Repeat(row_char, ws[1]) \o BorderLine(Tail(ws))

\* a grid of which only the first line is given: a row line and the closing
\* border follow it
GridOf(line) == line \o <<"\n">> \o <<column_sep>> \o <<"\n">> \o line

\* "A", "ABC"
GroupLabels == {<<"A">>, <<"A", "B", "C">>}

\* "Страна", "Столица", "Валюта", "Погода"
RenderGroupNames ==
    << <<"S","t","r","a","n","a">>, <<"S","t","o","l","i","c","a">>,
       <<"V","a","l","u","t","a">>, <<"P","o","g","o","d","a">> >>

RenderGroupLengths == <<5, 4, 1, 4>>

\* the 14-column grid of which every column renders to width 10
ScenarioGrid == GridOf(BorderLine([k \in 1..14 |-> 10]))

\* a call on any small grid, with as many group names as group lengths
FormatTableGroupsCall ==
    /\ frame = NoCall
    /\ \E n \in 1..MaxGroups :
        \E line \in BorderTexts, names \in [1..n -> GroupLabels],
           spans \in [1..n -> 1..MaxSpan] :
            /\ frame' = GroupsBegin(GridOf(line), names, spans)
            /\ ret' = NoResult
            /\ UNCHANGED location_info

\* the call render makes, on the 14-column grid of width 10
FormatTableGroupsScenarioCall ==
    /\ frame = NoCall
    /\ frame' = GroupsBegin(ScenarioGrid, RenderGroupNames, RenderGroupLengths)
    /\ ret' = NoResult
    /\ UNCHANGED location_info

GroupsRunning == frame.method = "_format_table_groups" /\ ret = NoResult

FormatTableGroupsIter ==
    /\ GroupsRunning
    /\ frame.i < Len(frame.column_groups_length)
    /\ GroupsCanIter(frame)
    /\ frame' = GroupsIter(frame)
    /\ UNCHANGED <<location_info, ret>>

FormatTableGroupsIndexError ==
    /\ GroupsRunning
    /\ frame.i < Len(frame.column_groups_length)
    /\ ~GroupsCanIter(frame)
    /\ ret' = Raise("IndexError")
    /\ UNCHANGED <<location_info, frame>>

FormatTableGroupsReturn ==
    /\ GroupsRunning
    /\ frame.i = Len(frame.column_groups_length)
    /\ ret' = Return(GroupsFinish(frame))
    /\ UNCHANGED <<location_info, frame>>

NextGroups ==
    \/ FormatTableGroupsCall
    \/ FormatTableGroupsScenarioCall
    \/ FormatTableGroupsIter
    \/ FormatTableGroupsIndexError
    \/ FormatTableGroupsReturn

SpecGroups == InitSplit /\ [][NextGroups]_vars

(***************************************************************************)
(* Properties of _format_table_groups                                      *)
(***************************************************************************)

InGroups == frame.method = "_format_table_groups"

GroupsReturned == InGroups /\ ret.kind = "return"

\* the text before the first line break, and the text after it
FirstLine(text) ==
    LET nl == {k \in 1..Len(text) : text[k] = "\n"}
    IN  IF nl = {} THEN text ELSE SubSeq(text, 1, Min(nl) - 1)

RestLines(text) ==
    LET nl == {k \in 1..Len(text) : text[k] = "\n"}
    IN  IF nl = {} THEN <<>> ELSE SubSeq(text, Min(nl) + 1, Len(text))

\* the positions of the corner characters of a line, and the k-th of them
Corners(line) == {p \in 1..Len(line) : line[p] = corner_sep}

CornerAt(line, k) ==
    CHOOSE p \in Corners(line) : Cardinality({q \in Corners(line) : q < p}) = k - 1

\* a border "+" w_1 dashes "+" ... "+" w_n dashes "+" with n >= 1 columns,
\* each at least one character wide
WellFormedBorder(line) ==
    /\ Len(line) >= 3
    /\ line[1] = corner_sep
    /\ line[Len(line)] = corner_sep
    /\ \A p \in 1..Len(line) : line[p] \in {corner_sep, row_char}
    /\ \A p \in 1..(Len(line) - 1) : ~(line[p] = corner_sep /\ line[p + 1] = corner_sep)

\* the number of columns of a well-formed border, and the width of its k-th
ColumnCount(line) == Cardinality(Corners(line)) - 1

ColumnWidth(line, k) == CornerAt(line, k + 1) - CornerAt(line, k) - 1

\* the sum of the widths of columns a+1 .. b of a border
RECURSIVE WidthsBetween(_, _, _)
WidthsBetween(line, a, b) ==
    IF a >= b THEN 0 ELSE ColumnWidth(line, b) + WidthsBetween(line, a, b - 1)

GridLine == FirstLine(frame.table_string)

\* the column cursor the groups before group i (from 0) call for
SpansBefore(i) == SumSeq(SubSeq(frame.column_groups_length, 1, i))

\* C1 (as claimed): the cursor is at the sum of the spans of the groups done,
\* and the group just done was measured over the columns [c, c + span) with c
\* the sum of the spans before it: its combined width is the sum of the widths
\* of those columns plus (span - 1).
C1_CursorAdvancesBySpan ==
    (InGroups /\ WellFormedBorder(GridLine)) =>
        /\ frame.col_index = SpansBefore(frame.i)
        /\ (frame.i >= 1 /\ SpansBefore(frame.i) <= ColumnCount(GridLine)) =>
              frame.group_col_length =
                  WidthsBetween(GridLine, SpansBefore(frame.i - 1), SpansBefore(frame.i))
                  + (frame.column_groups_length[frame.i] - 1)

\* C2 (as claimed): when the spans sum to the grid's column count, the band's
\* top border is as long as the grid's first border line (the column widths
\* plus the separators inside the groups, between the corners).
C2_TopBorderAsLongAsGrid ==
    ( /\ GroupsReturned
      /\ WellFormedBorder(GridLine)
      /\ SumSeq(frame.column_groups_length) = ColumnCount(GridLine) ) =>
        Len(FirstLine(ret.value)) = Len(GridLine)

\* the band's two lines
TopBorder == FirstLine(ret.value)

LabelLine == RestLines(ret.value)

\* the combined width of group j (from 1), read back from the top border
BandWidth(j) == ColumnWidth(TopBorder, j)

\* the label segment the claim describes for a label in a width w
PaddedLabel(name, w) ==
    <<column_sep>> \o Repeat(" ", (w - Len(name)) \div 2) \o name
    \o Repeat(" ", w - Len(name) - ((w - Len(name)) \div 2))

AllLabelsFit ==
    \A j \in 1..Len(frame.column_groups_names) :
        Len(frame.column_groups_names[j]) <= BandWidth(j)

\* C3: a group whose label is no longer than its combined width W gets the
\* segment '|', floor((W - len) / 2) spaces, the label, W - len - left spaces,
\* which is W characters after the separator, the right padding taking the odd
\* remainder; when every label fits, segment j of the finished label line lies
\* under segment j of the top border and the two lines are equally long; and a
\* 6-character label in a width of 54 gets 24 spaces on each side.
C3_LabelCentredInWidth ==
    /\ (InGroups /\ frame.i >= 1) =>
          LET w    == frame.group_col_length
              name == frame.column_groups_names[frame.i]
              seg  == PaddedLabel(name, w)
              all  == frame.group_col_names
          IN  /\ Len(name) <= w =>
                    /\ Len(seg) = w + 1
                    /\ Len(all) >= w + 1
                    /\ SubSeq(all, Len(all) - w, Len(all)) = seg
                    /\ frame.empty_space_in_gr_name_right
                         - frame.empty_space_in_gr_name_left \in {0, 1}
              /\ (w = 54 /\ Len(name) = 6) =>
                    /\ frame.empty_space_in_gr_name_left = 24
                    /\ frame.empty_space_in_gr_name_right = 24
    /\ (GroupsReturned /\ AllLabelsFit) =>
          /\ Len(LabelLine) = Len(TopBorder)
          /\ LabelLine[Len(LabelLine)] = column_sep
          /\ \A j \in 1..Len(frame.column_groups_names) :
                SubSeq(LabelLine, CornerAt(TopBorder, j), CornerAt(TopBorder, j + 1) - 1)
                    = PaddedLabel(frame.column_groups_names[j], BandWidth(j))

\* a finished band of two groups whose labels fit, one of them with an odd
\* number of spaces to share out
C3_Witness ==
    /\ GroupsReturned
    /\ AllLabelsFit
    /\ Len(frame.column_groups_names) >= 2
    /\ \E j \in 1..Len(frame.column_groups_names) :
          /\ BandWidth(j) > Len(frame.column_groups_names[j])
          /\ (BandWidth(j) - Len(frame.column_groups_names[j])) % 2 = 1

\* the width of segment j (from 1) of the label line: the characters that
\* follow its j-th column separator, up to the next one
LabelSegmentWidth(j) ==
    LET seps == {p \in 1..Len(LabelLine) : LabelLine[p] = column_sep}
        at(k) == CHOOSE p \in seps : Cardinality({q \in seps : q < p}) = k - 1
    IN  at(j + 1) - at(j) - 1

SpanTotalDiffers ==
    WellFormedBorder(GridLine)
    /\ SumSeq(frame.column_groups_length) # ColumnCount(GridLine)

SomeLabelTooLong ==
    \E j \in 1..Len(frame.column_groups_names) :
        Len(frame.column_groups_names[j]) > BandWidth(j)

\* C5 (as claimed): with a span total that differs from the grid's column
\* count, or a label longer than its group's combined width, no band is
\* returned.
C5_MismatchNeverReturnsBand ==
    (GroupsReturned /\ WellFormedBorder(GridLine)) =>
        ~(SpanTotalDiffers \/ SomeLabelTooLong)

\* C5 (as amended): _format_table_groups checks neither condition.  The only
\* failure is the IndexError of a group whose column range, counted from the
\* cursor, reaches past the parsed width list; otherwise a band is returned,
\* in which a label longer than its group's combined width has no padding on
\* either side, so that its segment is as wide as the label and not as the
\* group.
C5_OnlyIndexErrorNoValidation ==
    /\ (InGroups /\ ret.kind = "raise") =>
          /\ ret.exc = "IndexError"
          /\ frame.i < Len(frame.column_groups_length)
          /\ frame.col_index + frame.column_groups_length[frame.i + 1]
                > Len(frame.column_lengths)
    /\ (InGroups /\ ret = NoResult /\ frame.i < Len(frame.column_groups_length)
          /\ frame.col_index + frame.column_groups_length[frame.i + 1]
                <= Len(frame.column_lengths)) => ENABLED FormatTableGroupsIter
    /\ GroupsReturned =>
          \A j \in 1..Len(frame.column_groups_names) :
              LabelSegmentWidth(j) =
                  IF Len(frame.column_groups_names[j]) > BandWidth(j)
                  THEN Len(frame.column_groups_names[j]) ELSE BandWidth(j)

\* a band returned although the spans do not sum to the column count and a
\* label is longer than its group: the label line is longer than the border
C5_Witness ==
    /\ GroupsReturned
    /\ SpanTotalDiffers
    /\ SomeLabelTooLong
    /\ Len(LabelLine) > Len(TopBorder)

\* the run of characters that follows the k-th corner of a line, up to the
\* next corner or the end of the line
RunAfterCorner(line, k) ==
    (IF k < Cardinality(Corners(line)) THEN CornerAt(line, k + 1) ELSE Len(line) + 1)
    - CornerAt(line, k) - 1

\* C10 (as claimed): a well-formed border of n columns parses into exactly n
\* widths, entry k being w_k, with no extra entry before or after them; and
\* when the number of parsed widths is not the column count the groups call
\* for, the call fails at once: no group is processed and no band returned.
C10_ParsesExactlyTheColumns ==
    (InGroups /\ WellFormedBorder(GridLine)) =>
        /\ Len(frame.column_lengths) = ColumnCount(GridLine)
        /\ \A k \in 1..ColumnCount(GridLine) :
              frame.column_lengths[k] = ColumnWidth(GridLine, k)
        /\ Len(frame.column_lengths) # SumSeq(frame.column_groups_length) =>
              frame.i = 0 /\ ret.kind # "return"

\* C10 (as amended): the width list has one entry per '+' of the first line,
\* the length of the run that follows it.  For a well-formed border of n
\* columns that is n + 1 entries: w_1 .. w_n in order, then a trailing 0 for
\* the empty fragment after the last '+'.  A first line that is no such
\* border is parsed by the same rule; the number of entries is checked
\* against nothing.
C10_ParsesOneEntryPerCorner ==
    InGroups =>
        /\ Len(frame.column_lengths) = Cardinality(Corners(GridLine))
        /\ \A k \in 1..Len(frame.column_lengths) :
              frame.column_lengths[k] = RunAfterCorner(GridLine, k)
        /\ WellFormedBorder(GridLine) =>
              /\ Len(frame.column_lengths) = ColumnCount(GridLine) + 1
              /\ \A k \in 1..ColumnCount(GridLine) :
                    frame.column_lengths[k] = ColumnWidth(GridLine, k)
              /\ frame.column_lengths[ColumnCount(GridLine) + 1] = 0

\* a well-formed border of two columns of different widths, just parsed
C10_Witness ==
    /\ InGroups
    /\ frame.i = 0
    /\ WellFormedBorder(GridLine)
    /\ ColumnCount(GridLine) = 2
    /\ frame.column_lengths = <<ColumnWidth(GridLine, 1), ColumnWidth(GridLine, 2), 0>>
    /\ ColumnWidth(GridLine, 1) # ColumnWidth(GridLine, 2)

(***************************************************************************)
(* _format_time and _format_timezone                                       *)
(***************************************************************************)

\* "Информации о времени нет"
NoTimeText ==
    <<"I","n","f","o","r","m","a","c","i","i"," ","o"," ","v","r","e","m","e","n","i",
      " ","n","e","t">>

\* "Информации о часовом поясе нет"
NoTimezoneText ==
    <<"I","n","f","o","r","m","a","c","i","i"," ","o"," ","4","a","s","o","v","o","m",
      " ","p","o","a","s","e"," ","n","e","t">>

\* datetime.datetime.utcfromtimestamp(t): the civil date and time of the
\* instant t seconds after 1970-01-01T00:00:00 (proleptic Gregorian calendar)
UtcFromTimestamp(t) ==
    LET days == t \div 86400
        secs == t % 86400
        z    == days + 719468
        era  == z \div 146097
        doe  == z - era * 146097
        yoe  == (doe - doe \div 1460 + doe \div 36524 - doe \div 146096) \div 365
        doy  == doe - (365 * yoe + yoe \div 4 - yoe \div 100)
        mp   == (5 * doy + 2) \div 153
        m    == IF mp < 10 THEN mp + 3 ELSE mp - 9
    IN  [ year   |-> yoe + era * 400 + (IF m <= 2 THEN 1 ELSE 0),
          month  |-> m,
          day    |-> doy - (153 * mp + 2) \div 5 + 1,
          hour   |-> secs \div 3600,
          minute |-> (secs % 3600) \div 60,
          second |-> secs % 60 ]

\* .strftime("%Y-%m-%dT%H:%M:%SZ")
StrfTime(d) ==
    Padded(d.year, 4) \o <<"-">> \o Padded(d.month, 2) \o <<"-">> \o Padded(d.day, 2)
    \o <<"T">> \o Padded(d.hour, 2) \o <<":">> \o Padded(d.minute, 2) \o <<":">>
    \o Padded(d.second, 2) \o <<"Z">>

\* if self.location_info.capital_location.timezone
\*    and self.location_info.capital_location.current_time_UTC:
TimeKnown(timezone, current_time_UTC) == Truthy(timezone) /\ Truthy(current_time_UTC)

format_time(info) ==
    LET timezone  == info.capital_location.timezone
        time_utc  == info.capital_location.current_time_UTC
    IN  IF TimeKnown(timezone, time_utc)
        THEN StrfTime(UtcFromTimestamp(time_utc.v + timezone.v))
        ELSE NoTimeText

seconds_in_hour == 3600

\* if self.location_info.capital_location.timezone:
TimezoneKnown(timezone) == Truthy(timezone)

format_timezone(info) ==
    LET timezone == info.capital_location.timezone
    IN  IF TimezoneKnown(timezone)
        THEN <<"U", "T", "C", " ">> \o IntToText(timezone.v \div seconds_in_hour)
        ELSE NoTimezoneText

MaxTzHours == 3

\* offsets in seconds: whole hours either side of UTC, and UTC+5:30
Timezones ==
    {None, Some(19800)} \cup {Some(h * seconds_in_hour) : h \in (-MaxTzHours)..MaxTzHours}

\* unix times: the epoch, leap days, a year's last second, an ordinary instant
UnixTimes ==
    {None} \cup {Some(t) : t \in {0, 68169600, 951782400, 1078012800, 1700000000,
                                  1704067199, 1709251200, 2145916799}}

WithCapitalTime(info, timezone, current_time_UTC) ==
    [info EXCEPT !.capital_location.timezone = timezone,
                 !.capital_location.current_time_UTC = current_time_UTC]

InitTime ==
    /\ location_info \in {WithCapitalTime(DefaultDTO, tz, t) : tz \in Timezones, t \in UnixTimes}
    /\ frame = NoCall
    /\ ret = NoResult

FormatTimeCall ==
    /\ frame = NoCall
    /\ frame' = [method |-> "_format_time"]
    /\ ret' = Return(format_time(location_info))
    /\ UNCHANGED location_info

FormatTimezoneCall ==
    /\ frame = NoCall
    /\ frame' = [method |-> "_format_timezone"]
    /\ ret' = Return(format_timezone(location_info))
    /\ UNCHANGED location_info

NextTime == FormatTimeCall \/ FormatTimezoneCall

SpecTime == InitTime /\ [][NextTime]_vars

\* C7 (as claimed): _format_time returns the fallback text exactly when the
\* timezone offset or the current UTC time is None; with both present, the
\* value 0 included, it returns the instant currentUTC + offset as
\* YYYY-MM-DDTHH:MM:SSZ; it never raises.
C7_FallbackIffMissing ==
    frame.method = "_format_time" =>
        LET timezone == location_info.capital_location.timezone
            time_utc == location_info.capital_location.current_time_UTC
        IN  /\ ret.kind = "return"
            /\ (ret.value = NoTimeText) <=> (~timezone.some \/ ~time_utc.some)
            /\ (timezone.some /\ time_utc.some) =>
                  ret.value = StrfTime(UtcFromTimestamp(time_utc.v + timezone.v))

\* C8 (as claimed): _format_timezone returns "UTC n", n = offset / 3600, for
\* every offset that is present, 0 ("UTC 0") and the negative whole hours
\* included, and the fallback text only when the offset is None.
C8_UtcOffsetWheneverPresent ==
    frame.method = "_format_timezone" =>
        LET timezone == location_info.capital_location.timezone
        IN  /\ ret.kind = "return"
            /\ (ret.value = NoTimezoneText) <=> ~timezone.some
            /\ (timezone.some /\ timezone.v % 3600 = 0) =>
                  \E n \in (-24)..24 :
                      /\ n * 3600 = timezone.v
                      /\ ret.value = <<"U", "T", "C", " ">> \o IntToText(n)

(***************************************************************************)
(* _format_currency_rates                                                  *)
(*                                                                         *)
(* A rate is held exactly, as Decimal(rate) holds it: an integer number of *)
(* ten-thousandths.  currency_rates, a dict, is the sequence of its        *)
(* (code, rate) items in insertion order.                                  *)
(***************************************************************************)

\* quantize with ROUND_HALF_EVEN, the decimal context's default rounding
QuantizeCentsHalfEven(rate) ==
    LET mag  == IF rate < 0 THEN -rate ELSE rate
        down == mag \div 100
    IN  IF mag % 100 > 50 \/ (mag % 100 = 50 /\ down % 2 = 1) THEN down + 1 ELSE down

\* Decimal(rate).quantize(exp=Decimal('.01'), rounding=ROUND_HALF_UP): the
\* number of hundredths in the magnitude of the result, a tie going away from 0
QuantizeCents(rate) == ((IF rate < 0 THEN -rate ELSE rate) + 50) \div 100

\* str() of the quantized Decimal: sign, integer digits, '.', two digits
QuantizedText(rate) ==
    (IF rate < 0 THEN <<"-">> ELSE <<>>)
    \o NatToText(QuantizeCents(rate) \div 100) \o <<".">>
    \o Padded(QuantizeCents(rate) % 100, 2)

\* f"{currency} = {...}"
RateEntry(item) == item[1] \o <<" ", "=", " ">> \o QuantizedText(item[2])

format_currency_rates(info) ==
    Join(<<",", "\n">>, [k \in 1..Len(info.currency_rates) |-> RateEntry(info.currency_rates[k])])

MaxRates == 2

MaxRateSteps == 8

CurrencyCodes == {<<"U", "S", "D">>, <<"E", "U", "R">>, <<"K", "Z", "T">>}

\* rates in ten-thousandths: quarter-cent steps from 0, and 0.9950, 2.0050,
\* 73.2551, -0.0050
Rates == {25 * k : k \in 0..MaxRateSteps} \cup {9950, 20050, 732551, -50}

\* the mappings of at most MaxRates distinct codes
RateMappings ==
    UNION { { m \in [1..n -> CurrencyCodes \X Rates] :
                \A a, b \in 1..n : a # b => m[a][1] # m[b][1] } : n \in 0..MaxRates }

InitCurrency ==
    /\ location_info \in {[DefaultDTO EXCEPT !.currency_rates = m] : m \in RateMappings}
    /\ frame = NoCall
    /\ ret = NoResult

FormatCurrencyRatesCall ==
    /\ frame = NoCall
    /\ frame' = [method |-> "_format_currency_rates"]
    /\ ret' = Return(format_currency_rates(location_info))
    /\ UNCHANGED location_info

SpecCurrency == InitCurrency /\ [][FormatCurrencyRatesCall]_vars

CurrencyDone == frame.method = "_format_currency_rates" /\ ret.kind = "return"

\* a non-negative rate rounded half-up to hundredths, as text with exactly
\* two digits after the point: the c hundredths with 100c - 50 <= rate < 100c + 50
HalfUpText(rate) ==
    LET c == CHOOSE c \in (rate \div 100)..((rate \div 100) + 1) :
                 100 * c - 50 <= rate /\ rate < 100 * c + 50
    IN  NatToText(c \div 100) \o <<".", Digits[((c % 100) \div 10) + 1], Digits[(c % 10) + 1]>>

\* the entry "CODE = R" expected of item k
ExpectedEntry(k) ==
    location_info.currency_rates[k][1] \o <<" ", "=", " ">>
    \o HalfUpText(location_info.currency_rates[k][2])

\* where entry k starts in the text when sep separates consecutive entries
RECURSIVE EntryStart(_, _)
EntryStart(k, sep) ==
    IF k = 1 THEN 1
    ELSE EntryStart(k - 1, sep) + Len(ExpectedEntry(k - 1)) + Len(sep)

\* text is the expected entries in input order with sep, and nothing else,
\* between consecutive entries
EntriesJoinedBy(text, sep) ==
    LET n == Len(location_info.currency_rates)
    IN  IF n = 0 THEN text = <<>>
        ELSE /\ Len(text) = EntryStart(n, sep) + Len(ExpectedEntry(n)) - 1
             /\ \A k \in 1..n :
                    SubSeq(text, EntryStart(k, sep),
                           EntryStart(k, sep) + Len(ExpectedEntry(k)) - 1) = ExpectedEntry(k)
             /\ \A k \in 1..(n - 1) :
                    SubSeq(text, EntryStart(k + 1, sep) - Len(sep),
                           EntryStart(k + 1, sep) - 1) = sep

NonNegativeRates ==
    \A k \in 1..Len(location_info.currency_rates) : location_info.currency_rates[k][2] >= 0

RECURSIVE NewsBlocks(_)
\* the loop of _format_news: per item, "Источнк: {source_name}\n{published_at}\n
\* {author}:{title}\nURL:{url}\n\n"
NewsBlocks(items) ==
    IF items = <<>> THEN <<>>
    ELSE LET news == items[1]
         IN  <<"I","s","t","o","4","n","k",":"," ">> \o news.source_name \o <<"\n">>
             \o news.published_at \o <<"\n">> \o news.author \o <<":">>
             \o news.title \o <<"\n", "U", "R", "L", ":">> \o news.url \o <<"\n", "\n">>
             \o NewsBlocks(Tail(items))

\* res = ""; if self.location_info.news.news: for news in list(...): res += ...
format_news(info) == IF info.news.news # <<>> THEN NewsBlocks(info.news.news) ELSE <<>>

\* ",\n".join(f"{item.name} ({item.native_name})" for item in languages)
format_languages(info) ==
    Join(<<",", "\n">>,
         [k \in 1..Len(info.location.languages) |->
             info.location.languages[k].name \o <<" ", "(">>
             \o info.location.languages[k].native_name \o <<")">>])

RECURSIVE GroupThousands(_, _)
\* "{:,}".format(n) with every "," replaced by sep, for n >= 0
GroupThousands(n, sep) ==
    IF n < 1000 THEN NatToText(n)
    ELSE GroupThousands(n \div 1000, sep) \o <<sep>> \o Padded(n % 1000, 3)

\* "{:,}".format(population).replace(",", ".")
format_population(info) == GroupThousands(info.location.population, ".")

(***************************************************************************)
(* render and _format_as_table                                             *)
(*                                                                         *)
(* PrettyTable is modelled by what get_string() prints for one header row  *)
(* and one data row with its defaults: every column as wide as its widest  *)
(* line, one space of padding on each side, text centred, cells aligned to *)
(* the top.  area, temp, visibility and wind_speed are held as the text    *)
(* str() gives them.                                                       *)
(***************************************************************************)

field_names ==
    << <<"N","a","z","v","a","n","i","e">>,
       <<"R","e","g","i","o","n">>,
       <<"P","l","o","x","a","d","'"," ","(","m","^","2",")">>,
       <<"A","z","q","k","i">>,
       <<"N","a","s","e","l","e","n","i","e"," ","(","4","e","l",".",")">>,
       <<"N","a","z","v","a","n","i","e"," ","s","t","o","l","i","c","q">>,
       <<"K","o","o","r","d","i","n","a","t","q">>,
       <<"T","e","k","u","x","e","e"," ","v","r","e","m","a">>,
       <<"4","a","s","o","v","o","y"," ","p","o","a","s">>,
       <<"K","u","r","s","q"," ","v","a","l","u","t"," ","(","r","u","b",".",")">>,
       <<"O","p","i","s","a","n","i","e">>,
       <<"T","e","m","p","e","r","a","t","u","r","a"," ","(","o","C",")">>,
       <<"V","i","d","i","m","o","s","t","'"," ","(","m",")">>,
       <<"S","k","o","r","o","s","t","'"," ","v","e","t","r","a"," ","(","m","/","s",")">> >>

\* the row given to table.add_row
Cells(info) ==
    << split_country_name(info.location.name),
       info.location.subregion,
       info.location.area,
       format_languages(info),
       format_population(info),
       info.location.capital,
       <<"(">> \o info.capital_location.lat \o <<",", " ">> \o info.capital_location.lon \o <<")">>,
       format_time(info),
       format_timezone(info),
       format_currency_rates(info),
       info.weather.description,
       info.weather.temp,
       info.weather.visibility,
       info.weather.wind_speed >>

\* the width of column k: its widest line, header included
ContentWidth(cells, k) ==
    Max({Len(field_names[k])} \cup
        {Len(Split(cells[k], "\n")[y]) : y \in 1..Len(Split(cells[k], "\n"))})

\* text centred in width; an odd excess goes right of an odd-length text and
\* left of an even-length one
Justify(text, width) ==
    LET excess == width - Len(text)
    IN  IF excess % 2 = 1
        THEN IF Len(text) % 2 = 1
             THEN Repeat(" ", excess \div 2) \o text \o Repeat(" ", excess \div 2 + 1)
             ELSE Repeat(" ", excess \div 2 + 1) \o text \o Repeat(" ", excess \div 2)
        ELSE Repeat(" ", excess \div 2) \o text \o Repeat(" ", excess \div 2)

RECURSIVE RowLine(_, _, _)
\* "| " cell " | " cell ... " |" from column k on
RowLine(texts, widths, k) ==
    IF k > Len(texts) THEN <<column_sep>>
    ELSE <<column_sep, " ">> \o Justify(texts[k], widths[k]) \o <<" ">>
         \o RowLine(texts, widths, k + 1)

\* table.get_string()
GetString(info) ==
    LET cells  == Cells(info)
        n      == Len(field_names)
        widths == [k \in 1..n |-> ContentWidth(cells, k)]
        border == BorderLine([k \in 1..n |-> widths[k] + 2])
        lines  == [k \in 1..n |-> Split(cells[k], "\n")]
        height == Max({Len(lines[k]) : k \in 1..n})
        row(y) == RowLine([k \in 1..n |-> IF y <= Len(lines[k]) THEN lines[k][y] ELSE <<>>],
                          widths, 1)
    IN  Join(<<"\n">>, <<border, RowLine(field_names, widths, 1), border>>
                       \o [y \in 1..height |-> row(y)] \o <<border>>)

\* "Последние новости:"
NewsHeader == <<"P","o","s","l","e","d","n","i","e"," ","n","o","v","o","s","t","i",":">>

\* render: tuple(await self._format_as_table())
render(info) ==
    LET table  == GetString(info)
        groups == format_table_groups(table, RenderGroupNames, RenderGroupLengths)
    IN  IF groups.kind = "raise" THEN groups
        ELSE Return(<<groups.value, table, NewsHeader, format_news(info)>>)

MaxNews == 2

NewsItems ==
    { [ source_name |-> <<"B", "B", "C">>, published_at |-> <<"2", "0", "2", "3">>,
        author |-> <<"A", "n", "n">>, title |-> <<"R", "a", "i", "n">>, url |-> <<"u", "1">> ],
      [ source_name |-> <<"A", "P">>, published_at |-> <<"2", "0", "2", "4">>,
        author |-> <<>>, title |-> <<"S", "u", "n">>, url |-> <<"u", "2">> ] }

NewsLists == UNION {[1..n -> NewsItems] : n \in 0..MaxNews}

LangFrench == [name |-> <<"F", "r", "e", "n", "c", "h">>, native_name |-> <<"f", "r">>]

LangArabic == [name |-> <<"A", "r", "a", "b", "i", "c">>, native_name |-> <<"a", "r">>]

\* "Costa Rica"
NameCostaRica == <<"C", "o", "s", "t", "a", " ", "R", "i", "c", "a">>

LocationInfos ==
    { [ DefaultDTO EXCEPT
          !.location.name = name,
          !.location.languages = languages,
          !.location.population = population,
          !.capital_location.timezone = timezone,
          !.capital_location.current_time_UTC = time_utc,
          !.currency_rates = rates,
          !.news.news = news ] :
        name \in {NameChad, NameCostaRica},
        languages \in {<<>>, <<LangFrench>>, <<LangFrench, LangArabic>>},
        population \in {999, 1234567},
        timezone \in {None, Some(0), Some(3600)},
        time_utc \in {None, Some(1700000000)},
        rates \in {<<>>, << <<<<"U", "S", "D">>, 732551>> >>},
        news \in NewsLists }

Init ==
    /\ location_info \in LocationInfos
    /\ frame = NoCall
    /\ ret = NoResult

RenderCall ==
    /\ frame = NoCall
    /\ frame' = [method |-> "render"]
    /\ ret' = render(location_info)
    /\ UNCHANGED location_info

FormatNewsCall ==
    /\ frame = NoCall
    /\ frame' = [method |-> "_format_news"]
    /\ ret' = Return(format_news(location_info))
    /\ UNCHANGED location_info

FormatLanguagesCall ==
    /\ frame = NoCall
    /\ frame' = [method |-> "_format_languages"]
    /\ ret' = Return(format_languages(location_info))
    /\ UNCHANGED location_info

FormatPopulationCall ==
    /\ frame = NoCall
    /\ frame' = [method |-> "_format_population"]
    /\ ret' = Return(format_population(location_info))
    /\ UNCHANGED location_info

Next ==
    \/ RenderCall
    \/ FormatNewsCall
    \/ FormatLanguagesCall
    \/ FormatPopulationCall

Spec == Init /\ [][Next]_vars

\* C4 (as claimed): for every data object, null timezone, null current time
\* and empty news included, render returns, without raising, exactly four
\* blocks: the group band of the 14-column grid for the spans 5, 4, 1, 4 (as
\* long as the grid's border), the grid, the header "Последние новости:" and
\* the news digest, which is empty when there is no news.
C4_RenderReturnsFourBlocks ==
    frame.method = "render" =>
        /\ ret.kind = "return"
        /\ Len(ret.value) = 4
        /\ Len(FirstLine(ret.value[1])) = Len(FirstLine(ret.value[2]))
        /\ ColumnCount(FirstLine(ret.value[1])) = 4
        /\ ColumnCount(FirstLine(ret.value[2])) = 14
        /\ ret.value[3] = NewsHeader
        /\ (location_info.news.news = <<>>) => ret.value[4] = <<>>

====
